---- MODULE Spec2Model ----
(***************************************************************************)
(* A model of buildkite/builds.go: the BuildsService operations Cancel,    *)
(* Create, Get, List, ListByOrg, ListByPipeline and Rebuild, the wire      *)
(* encoding fixed by the struct tags of CreateBuild, Build and             *)
(* BuildsListOptions, and the transport (NewRequest, Do, addOptions) the   *)
(* operations delegate to.                                                 *)
(*                                                                         *)
(* A Go string that takes part in a request path is a sequence of tokens,  *)
(* each token standing for a run of characters ("organizations", "/",      *)
(* "x"); concatenation of strings is concatenation of sequences.  A nil    *)
(* pointer is the empty sequence and a non-nil pointer to v is <<v>>.      *)
(***************************************************************************)
EXTENDS Integers, Sequences, FiniteSets, TLC

\* ------------------------------------------------------------------ bounds
\* Longest org / pipeline / build argument, in tokens.
MaxArgLen == 1
\* Number of concurrent callers of one BuildsService.
NumCallers == 2
\* Most values of the State filter of a BuildsListOptions.
MaxStates == 1
\* Most keys of a Build response that depart from the base response.
MaxVaried == 1

\* ----------------------------------------------------------------- helpers
Nil == <<>>
Ptr(v) == <<v>>
Deref(p) == p[1]

RECURSIVE SeqsUpTo(_, _)
SeqsUpTo(S, n) ==
    IF n = 0 THEN {<<>>}
    ELSE LET shorter == SeqsUpTo(S, n - 1)
         IN  shorter \cup {Append(s, x) : s \in shorter, x \in S}

RECURSIVE Concat(_)
Concat(ss) == IF ss = <<>> THEN <<>> ELSE Head(ss) \o Concat(Tail(ss))

HasSlash(s) == \E i \in 1..Len(s) : s[i] = "/"

\* Tokens an argument may be built from: a plain name, the separator, and a
\* word that also occurs in the path templates.
ArgAlphabet == {"x", "/", "builds"}
ArgStrings == SeqsUpTo(ArgAlphabet, MaxArgLen)

\* ------------------------------------------------------------ fmt.Sprintf
\* fmt.Sprintf with %s verbs only: each verb is replaced, in order, by the
\* next argument, verbatim.
RECURSIVE Sprintf(_, _)
Sprintf(format, a) ==
    IF format = <<>> THEN <<>>
    ELSE IF Head(format) = "%s"
         THEN Head(a) \o Sprintf(Tail(format), Tail(a))
         ELSE <<Head(format)>> \o Sprintf(Tail(format), a)

\* CancelPath with org and pipeline in each other's place.
CancelPathSwapped(org, pipeline, build) ==
    Sprintf(<<"v2", "/", "organizations", "/", "%s", "/", "pipelines", "/", "%s",
              "/", "builds", "/", "%s", "/", "cancel">>, <<pipeline, org, build>>)

CancelPath(org, pipeline, build) ==
    Sprintf(<<"v2", "/", "organizations", "/", "%s", "/", "pipelines", "/", "%s",
              "/", "builds", "/", "%s", "/", "cancel">>, <<org, pipeline, build>>)

CreatePath(org, pipeline) ==
    Sprintf(<<"v2", "/", "organizations", "/", "%s", "/", "pipelines", "/", "%s",
              "/", "builds">>, <<org, pipeline>>)

GetPath(org, pipeline, id) ==
    Sprintf(<<"v2", "/", "organizations", "/", "%s", "/", "pipelines", "/", "%s",
              "/", "builds", "/", "%s">>, <<org, pipeline, id>>)

ListPath == Sprintf(<<"v2", "/", "builds">>, <<>>)

\* ListByOrgPath formatting the path of List.
ListByOrgPathDropsOrg(org) == Sprintf(<<"v2", "/", "builds">>, <<>>)

ListByOrgPath(org) ==
    Sprintf(<<"v2", "/", "organizations", "/", "%s", "/", "builds">>, <<org>>)

ListByPipelinePath(org, pipeline) ==
    Sprintf(<<"v2", "/", "organizations", "/", "%s", "/", "pipelines", "/", "%s",
              "/", "builds">>, <<org, pipeline>>)

RebuildPath(org, pipeline, build) ==
    Sprintf(<<"v2", "/", "organizations", "/", "%s", "/", "pipelines", "/", "%s",
              "/", "builds", "/", "%s", "/", "rebuild">>, <<org, pipeline, build>>)

\* The HTTP method each operation passes to NewRequest.
CancelMethod == "PUT"
CreateMethodPut == "PUT"
CreateMethod == "POST"
GetMethod == "GET"
ListMethod == "GET"
ListByOrgMethod == "GET"
ListByPipelineMethod == "GET"
RebuildMethod == "PUT"

Ops == {"Cancel", "Create", "Get", "List", "ListByOrg", "ListByPipeline", "Rebuild"}
ListOps == {"List", "ListByOrg", "ListByPipeline"}
\* Operations whose signature is (*Build, error), without the *Response.
TwoResultOps == {"Cancel", "Rebuild"}

MethodOf(o) ==
    CASE o = "Cancel" -> CancelMethod
      [] o = "Create" -> CreateMethod
      [] o = "Get" -> GetMethod
      [] o = "List" -> ListMethod
      [] o = "ListByOrg" -> ListByOrgMethod
      [] o = "ListByPipeline" -> ListByPipelineMethod
      [] o = "Rebuild" -> RebuildMethod

PathOf(o, a) ==
    CASE o = "Cancel" -> CancelPath(a.org, a.pipeline, a.id)
      [] o = "Create" -> CreatePath(a.org, a.pipeline)
      [] o = "Get" -> GetPath(a.org, a.pipeline, a.id)
      [] o = "List" -> ListPath
      [] o = "ListByOrg" -> ListByOrgPath(a.org)
      [] o = "ListByPipeline" -> ListByPipelinePath(a.org, a.pipeline)
      [] o = "Rebuild" -> RebuildPath(a.org, a.pipeline, a.id)

\* ------------------------------------------------------------ JSON values
\* A JSON value: its type, its literal text (scalars) and its number of
\* members (objects and arrays).
JNull == [type |-> "null", text |-> "null", size |-> 0]
JStr(s) == [type |-> "string", text |-> s, size |-> 0]
JNum(n) == [type |-> "number", text |-> ToString(n), size |-> 0]
JBool(b) == [type |-> "bool", text |-> IF b THEN "true" ELSE "false", size |-> 0]
JObj(n) == [type |-> "object", text |-> "", size |-> n]
JArr(n) == [type |-> "array", text |-> "", size |-> n]

\* A Go map or slice: nil or not, and its length.
NilColl == [nil |-> TRUE, len |-> 0]
Coll(n) == [nil |-> FALSE, len |-> n]

Range(f) == {f[i] : i \in DOMAIN f}

\* encoding/json's notion of an empty value, which the omitempty option of a
\* json tag tests: false, 0, a nil pointer, a nil interface value, and any
\* empty map, slice or string.  A struct value is never empty.
IsEmptyValue(kind, v) ==
    CASE kind = "string" -> v = ""
      [] kind = "bool" -> v = FALSE
      [] kind = "int" -> v = 0
      [] kind \in {"map", "slice"} -> v.len = 0
      [] kind \in {"ptr", "interface"} -> v = Nil
      [] kind = "struct" -> FALSE

\* ------------------------------------------------------ Author, CreateBuild
AuthorFields == <<
    [field |-> "Name", key |-> "name", kind |-> "string", omitempty |-> TRUE],
    [field |-> "Email", key |-> "email", kind |-> "string", omitempty |-> TRUE] >>

CreateBuildFields == <<
    [field |-> "Commit", key |-> "commit", kind |-> "string", omitempty |-> FALSE],
    [field |-> "Branch", key |-> "branch", kind |-> "string", omitempty |-> FALSE],
    [field |-> "Message", key |-> "message", kind |-> "string", omitempty |-> FALSE],
    [field |-> "Author", key |-> "author", kind |-> "struct", omitempty |-> TRUE],
    [field |-> "Env", key |-> "env", kind |-> "map", omitempty |-> TRUE],
    [field |-> "MetaData", key |-> "meta_data", kind |-> "map", omitempty |-> TRUE],
    [field |-> "IgnorePipelineBranchFilters", key |-> "ignore_pipeline_branch_filters",
     kind |-> "bool", omitempty |-> TRUE],
    [field |-> "PullRequestBaseBranch", key |-> "pull_request_base_branch",
     kind |-> "string", omitempty |-> TRUE],
    [field |-> "PullRequestID", key |-> "pull_request_id", kind |-> "int",
     omitempty |-> TRUE],
    [field |-> "PullRequestRepository", key |-> "pull_request_repository",
     kind |-> "string", omitempty |-> TRUE] >>

\* The keys a struct value is encoded with: every field's key, but for the
\* omitempty fields whose value is empty.
EncodedKeys(fields, val) ==
    {f.key : f \in {g \in Range(fields) :
                        ~(g.omitempty /\ IsEmptyValue(g.kind, val[g.field]))}}

FieldOfKey(fields, k) == CHOOSE f \in Range(fields) : f.key = k

EncodeAuthor(a) == JObj(Cardinality(EncodedKeys(AuthorFields, a)))

EncodeCreateBuildValue(kind, v) ==
    CASE kind = "string" -> JStr(v)
      [] kind = "bool" -> JBool(v)
      [] kind = "int" -> JNum(v)
      [] kind = "map" -> IF v.nil THEN JNull ELSE JObj(v.len)
      [] kind = "struct" -> EncodeAuthor(v)

\* The JSON object a CreateBuild is serialized to: a function from the keys
\* present in the object to their values.
EncodeCreateBuild(b) ==
    [k \in EncodedKeys(CreateBuildFields, b) |->
        LET f == FieldOfKey(CreateBuildFields, k)
        IN  EncodeCreateBuildValue(f.kind, b[f.field])]

\* The CreateBuild with only the required fields set.
MinimalCreateBuild ==
    [Commit |-> "abc123", Branch |-> "main", Message |-> "deploy",
     Author |-> [Name |-> "", Email |-> ""], Env |-> NilColl, MetaData |-> NilColl,
     IgnorePipelineBranchFilters |-> FALSE, PullRequestBaseBranch |-> "",
     PullRequestID |-> 0, PullRequestRepository |-> ""]

FullCreateBuild ==
    [Commit |-> "abc123", Branch |-> "main", Message |-> "deploy",
     Author |-> [Name |-> "n", Email |-> "e"], Env |-> Coll(1), MetaData |-> Coll(1),
     IgnorePipelineBranchFilters |-> TRUE, PullRequestBaseBranch |-> "base",
     PullRequestID |-> 7, PullRequestRepository |-> "repo"]

\* ------------------------------------------------------------------- Build
BuildFields == <<
    [field |-> "ID", key |-> "id", kind |-> "ptr", omitempty |-> TRUE, json |-> "string"],
    [field |-> "URL", key |-> "url", kind |-> "ptr", omitempty |-> TRUE, json |-> "string"],
    [field |-> "WebURL", key |-> "web_url", kind |-> "ptr", omitempty |-> TRUE, json |-> "string"],
    [field |-> "Number", key |-> "number", kind |-> "ptr", omitempty |-> TRUE, json |-> "number"],
    [field |-> "State", key |-> "state", kind |-> "ptr", omitempty |-> TRUE, json |-> "string"],
    [field |-> "Blocked", key |-> "blocked", kind |-> "ptr", omitempty |-> TRUE, json |-> "bool"],
    [field |-> "Message", key |-> "message", kind |-> "ptr", omitempty |-> TRUE, json |-> "string"],
    [field |-> "Commit", key |-> "commit", kind |-> "ptr", omitempty |-> TRUE, json |-> "string"],
    [field |-> "Branch", key |-> "branch", kind |-> "ptr", omitempty |-> TRUE, json |-> "string"],
    [field |-> "Env", key |-> "env", kind |-> "map", omitempty |-> TRUE, json |-> "object"],
    [field |-> "CreatedAt", key |-> "created_at", kind |-> "ptr", omitempty |-> TRUE, json |-> "time"],
    [field |-> "ScheduledAt", key |-> "scheduled_at", kind |-> "ptr", omitempty |-> TRUE, json |-> "time"],
    [field |-> "StartedAt", key |-> "started_at", kind |-> "ptr", omitempty |-> TRUE, json |-> "time"],
    [field |-> "FinishedAt", key |-> "finished_at", kind |-> "ptr", omitempty |-> TRUE, json |-> "time"],
    [field |-> "MetaData", key |-> "meta_data", kind |-> "interface", omitempty |-> TRUE, json |-> "object"],
    [field |-> "Creator", key |-> "creator", kind |-> "ptr", omitempty |-> TRUE, json |-> "object"],
    [field |-> "Jobs", key |-> "jobs", kind |-> "slice", omitempty |-> TRUE, json |-> "array"],
    [field |-> "Pipeline", key |-> "pipeline", kind |-> "ptr", omitempty |-> TRUE, json |-> "object"],
    [field |-> "PullRequest", key |-> "pull_request", kind |-> "ptr", omitempty |-> TRUE, json |-> "object"] >>

BuildKeys == {f.key : f \in Range(BuildFields)}
BuildFieldNames == {f.field : f \in Range(BuildFields)}

\* The zero value of a field of the given kind.
ZeroValue(kind) == IF kind \in {"map", "slice"} THEN NilColl ELSE Nil

\* Build{}: every field at its zero value.
ZeroBuild ==
    [n \in BuildFieldNames |->
        ZeroValue((CHOOSE f \in Range(BuildFields) : f.field = n).kind)]

\* DecodeValue for fields declared by value and pointed to only when they
\* are not the zero value.
DecodeValueZeroAsNil(kind, jv) ==
    IF jv = JNull THEN ZeroValue(kind)
    ELSE IF kind \in {"map", "slice"} THEN Coll(jv.size)
    ELSE IF jv \in {JNum(0), JBool(FALSE), JStr("")} THEN Nil
    ELSE Ptr(jv)

\* What decoding a JSON value into a field of the given kind stores: null
\* stores nil; any other value allocates the pointee (pointer, interface)
\* or the collection (map, slice), however empty the value is.
DecodeValue(kind, jv) ==
    IF jv = JNull THEN ZeroValue(kind)
    ELSE IF kind \in {"map", "slice"} THEN Coll(jv.size)
    ELSE Ptr(jv)

\* Decoding a JSON object into a Build that starts as `into`: the keys of the
\* object are stored, the fields of the other keys are left as they were.
DecodeBuildInto(into, obj) ==
    [n \in BuildFieldNames |->
        LET f == CHOOSE g \in Range(BuildFields) : g.field = n
        IN  IF f.key \in DOMAIN obj THEN DecodeValue(f.kind, obj[f.key]) ELSE into[n]]

DecodeBuild(obj) == DecodeBuildInto(ZeroBuild, obj)

EncodeBuildValue(f, v) ==
    CASE f.kind \in {"ptr", "interface"} -> IF v = Nil THEN JNull ELSE Deref(v)
      [] f.kind = "map" -> IF v.nil THEN JNull ELSE JObj(v.len)
      [] f.kind = "slice" -> IF v.nil THEN JNull ELSE JArr(v.len)

\* The JSON object a Build is serialized to.
EncodeBuild(b) ==
    [k \in EncodedKeys(BuildFields, b) |->
        LET f == FieldOfKey(BuildFields, k)
        IN  EncodeBuildValue(f, b[f.field])]

\* ------------------------------------------------------- BuildsListOptions
\* BuildsListOptionsFields with Branch tagged `url:"branch"`.
BuildsListOptionsFieldsBranchKept == <<
    [field |-> "Creator", key |-> "creator", kind |-> "string", omitempty |-> TRUE, brackets |-> FALSE],
    [field |-> "CreatedFrom", key |-> "created_from", kind |-> "time", omitempty |-> TRUE, brackets |-> FALSE],
    [field |-> "CreatedTo", key |-> "created_to", kind |-> "time", omitempty |-> TRUE, brackets |-> FALSE],
    [field |-> "FinishedFrom", key |-> "finished_from", kind |-> "time", omitempty |-> TRUE, brackets |-> FALSE],
    [field |-> "State", key |-> "state", kind |-> "slice", omitempty |-> TRUE, brackets |-> TRUE],
    [field |-> "Branch", key |-> "branch", kind |-> "string", omitempty |-> FALSE, brackets |-> FALSE],
    [field |-> "Commit", key |-> "commit", kind |-> "string", omitempty |-> TRUE, brackets |-> FALSE] >>

BuildsListOptionsFields == <<
    [field |-> "Creator", key |-> "creator", kind |-> "string", omitempty |-> TRUE, brackets |-> FALSE],
    [field |-> "CreatedFrom", key |-> "created_from", kind |-> "time", omitempty |-> TRUE, brackets |-> FALSE],
    [field |-> "CreatedTo", key |-> "created_to", kind |-> "time", omitempty |-> TRUE, brackets |-> FALSE],
    [field |-> "FinishedFrom", key |-> "finished_from", kind |-> "time", omitempty |-> TRUE, brackets |-> FALSE],
    [field |-> "State", key |-> "state", kind |-> "slice", omitempty |-> TRUE, brackets |-> TRUE],
    [field |-> "Branch", key |-> "branch", kind |-> "string", omitempty |-> TRUE, brackets |-> FALSE],
    [field |-> "Commit", key |-> "commit", kind |-> "string", omitempty |-> TRUE, brackets |-> FALSE] >>

\* The embedded pagination options.
ListOptionsFields == <<
    [field |-> "Page", key |-> "page", kind |-> "int", omitempty |-> TRUE, brackets |-> FALSE],
    [field |-> "PerPage", key |-> "per_page", kind |-> "int", omitempty |-> TRUE, brackets |-> FALSE] >>

\* An embedded struct contributes its fields to the enclosing struct.
AllListFields == BuildsListOptionsFields \o ListOptionsFields

\* The zero value of a url-encoded field: the empty string, the zero time
\* (time 0 here), the empty slice, 0.
IsZeroQueryValue(kind, v) ==
    CASE kind = "string" -> v = ""
      [] kind = "time" -> v = 0
      [] kind = "slice" -> Len(v) = 0
      [] kind = "int" -> v = 0

\* The name a field's parameter goes by in the query string.
ParamKey(f) == IF f.brackets THEN f.key \o "[]" ELSE f.key

\* The parameters one field contributes: none when it is omitted, one per
\* element for a slice, else one.
FieldParams(f, v) ==
    IF f.omitempty /\ IsZeroQueryValue(f.kind, v) THEN <<>>
    ELSE CASE f.kind = "string" -> << <<ParamKey(f), "=", v>> >>
           [] f.kind \in {"time", "int"} -> << <<ParamKey(f), "=", ToString(v)>> >>
           [] f.kind = "slice" -> [i \in 1..Len(v) |-> <<ParamKey(f), "=", v[i]>>]

\* The parameters of an options value, in field order.
QueryValues(opt) ==
    Concat([i \in 1..Len(AllListFields) |->
                FieldParams(AllListFields[i], opt[AllListFields[i].field])])

\* key=value pairs joined by "&".
RECURSIVE EncodeQuery(_)
EncodeQuery(params) ==
    IF params = <<>> THEN <<>>
    ELSE IF Len(params) = 1 THEN Head(params)
    ELSE Head(params) \o <<"&">> \o EncodeQuery(Tail(params))

\* addOptions(s, opt): s itself for a nil opt, else s with the encoded
\* options as its query string.
addOptions(s, opt) ==
    IF opt = Nil THEN s
    ELSE LET q == EncodeQuery(QueryValues(Deref(opt)))
         IN  IF q = <<>> THEN s ELSE s \o <<"?">> \o q

StateLists == SeqsUpTo({"passed", "failed"}, MaxStates)

ZeroListOptions ==
    [Creator |-> "", CreatedFrom |-> 0, CreatedTo |-> 0, FinishedFrom |-> 0,
     State |-> <<>>, Branch |-> "", Commit |-> "", Page |-> 0, PerPage |-> 0]

BranchMainOptions == [ZeroListOptions EXCEPT !.Branch = "main"]

FullListOptions ==
    [Creator |-> "me", CreatedFrom |-> 1, CreatedTo |-> 2, FinishedFrom |-> 1,
     State |-> <<"passed">>, Branch |-> "main", Commit |-> "abc123",
     Page |-> 2, PerPage |-> 30]

\* Every BuildsListOptions value over a small domain of each field.
AllListOptions ==
    [Creator : {"", "me"}, CreatedFrom : {0, 1}, CreatedTo : {0, 2},
     FinishedFrom : {0, 1}, State : StateLists, Branch : {"", "main"},
     Commit : {"", "abc123"}, Page : {0, 2}, PerPage : {0, 30}]

SomeListOptions == {Nil, Ptr(ZeroListOptions), Ptr(BranchMainOptions), Ptr(FullListOptions)}
EveryListOptions == {Nil} \cup {Ptr(o) : o \in AllListOptions}

\* -------------------------------------------------------- response bodies
\* The JSON values a key of a Build response may carry: null, the empty
\* value of its type, a non-empty value.  (An empty string is no timestamp.)
FieldJSONValues(f) ==
    CASE f.json = "string" -> {JNull, JStr(""), JStr("v")}
      [] f.json = "number" -> {JNull, JNum(0), JNum(7)}
      [] f.json = "bool" -> {JNull, JBool(FALSE), JBool(TRUE)}
      [] f.json = "object" -> {JNull, JObj(0), JObj(1)}
      [] f.json = "array" -> {JNull, JArr(0), JArr(1)}
      [] f.json = "time" -> {JNull, JStr("2014-01-01T00:00:00Z")}

NonEmptyJSONValue(f) ==
    CASE f.json = "string" -> JStr("v")
      [] f.json = "number" -> JNum(7)
      [] f.json = "bool" -> JBool(TRUE)
      [] f.json = "object" -> JObj(1)
      [] f.json = "array" -> JArr(1)
      [] f.json = "time" -> JStr("2014-01-01T00:00:00Z")

\* A template gives each key Nil (absent) or a pointer to its value.
ObjectOf(t) == [k \in {j \in DOMAIN t : t[j] # Nil} |-> Deref(t[k])]

KeyChoices(k) == {Nil} \cup {Ptr(v) : v \in FieldJSONValues(FieldOfKey(BuildFields, k))}

RECURSIVE KeySetsUpTo(_)
KeySetsUpTo(n) ==
    IF n = 0 THEN {{}}
    ELSE LET smaller == KeySetsUpTo(n - 1)
         IN  smaller \cup {K \cup {k} : K \in smaller, k \in BuildKeys}

\* The templates that differ from `base` on at most MaxVaried keys.
TemplatesNear(base) ==
    UNION {{[k \in BuildKeys |-> IF k \in K THEN a[k] ELSE base[k]] :
               a \in {x \in [K -> UNION {KeyChoices(k) : k \in K}] :
                         \A k \in K : x[k] \in KeyChoices(k)}} :
           K \in KeySetsUpTo(MaxVaried)}

EmptyTemplate == [k \in BuildKeys |-> Nil]
FullTemplate == [k \in BuildKeys |-> Ptr(NonEmptyJSONValue(FieldOfKey(BuildFields, k)))]

\* Build responses around the empty and the fully populated object.
EveryBuildObject ==
    {ObjectOf(t) : t \in TemplatesNear(EmptyTemplate) \cup TemplatesNear(FullTemplate)}

BuildObject1 == ("id" :> JStr("b1")) @@ ("state" :> JStr("passed"))
BuildObject2 == ("id" :> JStr("b2")) @@ ("number" :> JNum(0)) @@ ("env" :> JObj(0))
SomeBuildObjects == {BuildObject1, BuildObject2}

\* A Go []Build: nil or not, and its elements.
NilSlice == [nil |-> TRUE, elems |-> <<>>]
Slice(bs) == [nil |-> FALSE, elems |-> bs]

\* A destination of Do: a Build (new(Build), Build{}) or a []Build
\* (new([]Build)), at its zero value.
ZeroCell == [build |-> ZeroBuild, list |-> NilSlice]

\* ------------------------------------------------------------ the transport
Response(status) == Ptr([status |-> status])
Error(e) == Ptr(e)

\* NewRequest(method, path, body): the request; a non-nil body is serialized.
NewRequest(method, path, body) ==
    [method |-> method, path |-> path,
     body |-> IF body = Nil THEN Nil ELSE Ptr(EncodeCreateBuild(Deref(body)))]

\* What one execution of a request can come to.  `body` is the response body
\* (for a list operation an array of objects), `stored` how much of it was
\* decoded into the destination before Do returned.
DoOutcomes(o, objects) ==
    LET bodies == IF o \in ListOps
                  THEN {<<>>} \cup {<<x>> : x \in objects}
                  ELSE {<<x>> : x \in objects}
    IN  {[resp |-> Nil, err |-> Error("network"), body |-> Nil, stored |-> "none"],
         [resp |-> Response(500), err |-> Error("status"), body |-> Nil, stored |-> "none"]}
        \cup {[resp |-> Response(200), err |-> Error("decode"), body |-> Ptr(b),
               stored |-> "part"] : b \in bodies}
        \cup {[resp |-> Response(200), err |-> Nil, body |-> Ptr(b),
               stored |-> "all"] : b \in bodies}

\* The keys of an object decoded before a decode error: its first key.
FirstKeys(obj) ==
    {f.key : f \in {g \in Range(BuildFields) :
        /\ g.key \in DOMAIN obj
        /\ \A i, j \in 1..Len(BuildFields) :
              (BuildFields[i] = g /\ BuildFields[j].key \in DOMAIN obj) => i <= j}}

Restrict(obj, keys) == [k \in keys |-> obj[k]]

\* Do's write to its destination `cell` for operation o and outcome out.
DoStore(o, cell, out) ==
    IF out.stored = "none" THEN cell
    ELSE LET b == Deref(out.body)
         IN  IF o \in ListOps
             THEN [cell EXCEPT !.list =
                     IF out.stored = "all"
                     THEN Slice([i \in 1..Len(b) |-> DecodeBuild(b[i])])
                     ELSE Slice([i \in 1..Len(b) |->
                                    DecodeBuild(Restrict(b[i], FirstKeys(b[i])))])]
             ELSE [cell EXCEPT !.build =
                     IF out.stored = "all"
                     THEN DecodeBuildInto(@, b[1])
                     ELSE DecodeBuildInto(@, Restrict(b[1], FirstKeys(b[1])))]

\* ------------------------------------------------------------------- state
VARIABLES
    client,  \* BuildsService.client, the transport the service refers to
    pc,      \* per caller: "idle", "addOptions", "newRequest", "do", "returned"
    op,      \* per caller: the operation it is in
    arg,     \* per caller: the arguments of the call
    u,       \* per caller: the local u, the request path
    req,     \* per caller: the local req, nil or the request
    dest,    \* per caller: the address of its result value, 0 before it is allocated
    ret,     \* per caller: the values the operation returned
    heap,    \* the result values, by address
    calls,   \* per caller: the transport calls of this invocation, with what each returned
    reenc    \* per caller: nil or the returned Build, serialized again

vars == <<client, pc, op, arg, u, req, dest, ret, heap, calls, reenc>>

Callers == 1..NumCallers
Addrs == 1..NumCallers

NoArg == [org |-> <<>>, pipeline |-> <<>>, id |-> <<>>, opt |-> Nil, b |-> Nil]

\* The values an operation returns: the *Build, the []Build, whether its
\* signature has a *Response, the *Response and the error.
Ret(ptr, list, hasResp, resp, e) ==
    [ptr |-> ptr, list |-> list, hasResp |-> hasResp, resp |-> resp, err |-> e]
NoRet == Ret(Nil, NilSlice, FALSE, Nil, Nil)

Call(name, r, resp, e, body) ==
    [call |-> name, req |-> r, resp |-> resp, err |-> e, body |-> body]

Init ==
    /\ client = "client"
    /\ pc = [c \in Callers |-> "idle"]
    /\ op = [c \in Callers |-> "none"]
    /\ arg = [c \in Callers |-> NoArg]
    /\ u = [c \in Callers |-> <<>>]
    /\ req = [c \in Callers |-> Nil]
    /\ dest = [c \in Callers |-> 0]
    /\ ret = [c \in Callers |-> NoRet]
    /\ heap = [a \in Addrs |-> ZeroCell]
    /\ calls = [c \in Callers |-> <<>>]
    /\ reenc = [c \in Callers |-> Nil]

\* Entry of an operation: its arguments are bound and u is formatted.
Enter(c, o, a, path) ==
    /\ pc[c] = "idle"
    /\ pc' = [pc EXCEPT ![c] = IF o \in ListOps THEN "addOptions" ELSE "newRequest"]
    /\ op' = [op EXCEPT ![c] = o]
    /\ arg' = [arg EXCEPT ![c] = a]
    /\ u' = [u EXCEPT ![c] = path]
    /\ UNCHANGED <<client, req, dest, ret, heap, calls, reenc>>

Cancel(c, strings) ==
    \E org, pipeline, build \in strings :
        Enter(c, "Cancel", [NoArg EXCEPT !.org = org, !.pipeline = pipeline, !.id = build],
              CancelPath(org, pipeline, build))

Create(c, strings, builds) ==
    \E org, pipeline \in strings, b \in builds :
        Enter(c, "Create", [NoArg EXCEPT !.org = org, !.pipeline = pipeline, !.b = Ptr(b)],
              CreatePath(org, pipeline))

Get(c, strings) ==
    \E org, pipeline, id \in strings :
        Enter(c, "Get", [NoArg EXCEPT !.org = org, !.pipeline = pipeline, !.id = id],
              GetPath(org, pipeline, id))

List(c, options) ==
    \E opt \in options :
        Enter(c, "List", [NoArg EXCEPT !.opt = opt], ListPath)

ListByOrg(c, strings, options) ==
    \E org \in strings, opt \in options :
        Enter(c, "ListByOrg", [NoArg EXCEPT !.org = org, !.opt = opt], ListByOrgPath(org))

ListByPipeline(c, strings, options) ==
    \E org, pipeline \in strings, opt \in options :
        Enter(c, "ListByPipeline",
              [NoArg EXCEPT !.org = org, !.pipeline = pipeline, !.opt = opt],
              ListByPipelinePath(org, pipeline))

Rebuild(c, strings) ==
    \E org, pipeline, build \in strings :
        Enter(c, "Rebuild", [NoArg EXCEPT !.org = org, !.pipeline = pipeline, !.id = build],
              RebuildPath(org, pipeline, build))

\* The return on an error of addOptions or NewRequest: nil results and the
\* error.
ErrReturn(o, e) == Ret(Nil, NilSlice, o \notin TwoResultOps, Nil, e)

\* u, err := addOptions(u, opt), and the return on its error.
AddOptionsStep(c) ==
    /\ pc[c] = "addOptions"
    /\ \/ /\ u' = [u EXCEPT ![c] = addOptions(@, arg[c].opt)]
          /\ calls' = [calls EXCEPT ![c] = Append(@, Call("addOptions", Nil, Nil, Nil, Nil))]
          /\ pc' = [pc EXCEPT ![c] = "newRequest"]
          /\ UNCHANGED ret
       \/ /\ calls' = [calls EXCEPT ![c] =
                          Append(@, Call("addOptions", Nil, Nil, Error("encode"), Nil))]
          /\ ret' = [ret EXCEPT ![c] = ErrReturn(op[c], Error("encode"))]
          /\ pc' = [pc EXCEPT ![c] = "returned"]
          /\ UNCHANGED u
    /\ UNCHANGED <<client, op, arg, req, dest, heap, reenc>>

\* The body an operation passes to NewRequest.
BodyOf(o, a) == IF o = "Create" THEN a.b ELSE Nil

\* Alloc handing every invocation the same result value, as a result kept
\* in the service (or in a package variable) would be.
AllocShared(c) == 1

\* The address of a newly allocated result value: one no invocation holds.
Alloc(c) == CHOOSE a \in Addrs : \A d \in Callers : dest[d] # a

\* req, err := NewRequest(method, u, body), the return on its error, and the
\* allocation of the result value that follows.
NewRequestStep(c) ==
    /\ pc[c] = "newRequest"
    /\ \/ /\ req' = [req EXCEPT ![c] =
                        Ptr(NewRequest(MethodOf(op[c]), u[c], BodyOf(op[c], arg[c])))]
          /\ calls' = [calls EXCEPT ![c] = Append(@, Call("NewRequest", Nil, Nil, Nil, Nil))]
          /\ dest' = [dest EXCEPT ![c] = Alloc(c)]
          /\ heap' = [heap EXCEPT ![Alloc(c)] = ZeroCell]
          /\ pc' = [pc EXCEPT ![c] = "do"]
          /\ UNCHANGED ret
       \/ /\ calls' = [calls EXCEPT ![c] =
                          Append(@, Call("NewRequest", Nil, Nil, Error("request"), Nil))]
          /\ ret' = [ret EXCEPT ![c] = ErrReturn(op[c], Error("request"))]
          /\ pc' = [pc EXCEPT ![c] = "returned"]
          /\ UNCHANGED <<req, dest, heap>>
    /\ UNCHANGED <<client, op, arg, u, reenc>>

\* The returns that follow Do, for destination address d holding cell.
\* CancelReturn returning &result whatever Do returned.
CancelReturnKeepsResult(d, cell, out) == Ret(Ptr(d), NilSlice, FALSE, Nil, out.err)

CancelReturn(d, cell, out) ==
    IF out.err # Nil THEN Ret(Nil, NilSlice, FALSE, Nil, out.err)
    ELSE Ret(Ptr(d), NilSlice, FALSE, Nil, Nil)

CreateReturn(d, cell, out) ==
    IF out.err # Nil THEN Ret(Nil, NilSlice, TRUE, out.resp, out.err)
    ELSE Ret(Ptr(d), NilSlice, TRUE, out.resp, out.err)

\* GetReturn returning nil, nil, err on an error of Do.
GetReturnDropsResponse(d, cell, out) ==
    IF out.err # Nil THEN Ret(Nil, NilSlice, TRUE, Nil, out.err)
    ELSE Ret(Ptr(d), NilSlice, TRUE, out.resp, out.err)

GetReturn(d, cell, out) ==
    IF out.err # Nil THEN Ret(Nil, NilSlice, TRUE, out.resp, out.err)
    ELSE Ret(Ptr(d), NilSlice, TRUE, out.resp, out.err)

ListReturn(d, cell, out) ==
    IF out.err # Nil THEN Ret(Nil, NilSlice, TRUE, out.resp, out.err)
    ELSE Ret(Nil, cell.list, TRUE, out.resp, out.err)

ListByOrgReturn(d, cell, out) ==
    IF out.err # Nil THEN Ret(Nil, NilSlice, TRUE, out.resp, out.err)
    ELSE Ret(Nil, cell.list, TRUE, out.resp, out.err)

ListByPipelineReturn(d, cell, out) ==
    IF out.err # Nil THEN Ret(Nil, NilSlice, TRUE, out.resp, out.err)
    ELSE Ret(Nil, cell.list, TRUE, out.resp, out.err)

RebuildReturn(d, cell, out) ==
    IF out.err # Nil THEN Ret(Nil, NilSlice, FALSE, Nil, out.err)
    ELSE Ret(Ptr(d), NilSlice, FALSE, Nil, Nil)

ReturnOf(o, d, cell, out) ==
    CASE o = "Cancel" -> CancelReturn(d, cell, out)
      [] o = "Create" -> CreateReturn(d, cell, out)
      [] o = "Get" -> GetReturn(d, cell, out)
      [] o = "List" -> ListReturn(d, cell, out)
      [] o = "ListByOrg" -> ListByOrgReturn(d, cell, out)
      [] o = "ListByPipeline" -> ListByPipelineReturn(d, cell, out)
      [] o = "Rebuild" -> RebuildReturn(d, cell, out)

\* DoStep calling Do once more after a first error.
DoStepRetry(c, objects) ==
    /\ pc[c] = "do"
    /\ \E out \in DoOutcomes(op[c], objects) :
          LET cell == DoStore(op[c], heap[dest[c]], out)
              again == out.err # Nil /\ \A i \in 1..Len(calls[c]) : calls[c][i].call # "Do"
          IN  /\ heap' = [heap EXCEPT ![dest[c]] = cell]
              /\ calls' = [calls EXCEPT ![c] =
                              Append(@, Call("Do", req[c], out.resp, out.err, out.body))]
              /\ ret' = IF again THEN ret
                        ELSE [ret EXCEPT ![c] = ReturnOf(op[c], dest[c], cell, out)]
              /\ pc' = [pc EXCEPT ![c] = IF again THEN "do" ELSE "returned"]
    /\ UNCHANGED <<client, op, arg, u, req, dest, reenc>>

\* resp, err := Do(req, result) and the return that follows it.
DoStep(c, objects) ==
    /\ pc[c] = "do"
    /\ \E out \in DoOutcomes(op[c], objects) :
          LET cell == DoStore(op[c], heap[dest[c]], out)
          IN  /\ heap' = [heap EXCEPT ![dest[c]] = cell]
              /\ calls' = [calls EXCEPT ![c] =
                              Append(@, Call("Do", req[c], out.resp, out.err, out.body))]
              /\ ret' = [ret EXCEPT ![c] = ReturnOf(op[c], dest[c], cell, out)]
    /\ pc' = [pc EXCEPT ![c] = "returned"]
    /\ UNCHANGED <<client, op, arg, u, req, dest, reenc>>

\* The caller serializes the Build it was returned.
ReEncode(c) ==
    /\ pc[c] = "returned"
    /\ ret[c].ptr # Nil
    /\ reenc[c] = Nil
    /\ reenc' = [reenc EXCEPT ![c] = Ptr(EncodeBuild(heap[Deref(ret[c].ptr)].build))]
    /\ UNCHANGED <<client, pc, op, arg, u, req, dest, ret, heap, calls>>

\* The caller is done with what it was returned; the invocation's values are
\* garbage.
Finish(c) ==
    /\ pc[c] = "returned"
    /\ pc' = [pc EXCEPT ![c] = "idle"]
    /\ op' = [op EXCEPT ![c] = "none"]
    /\ arg' = [arg EXCEPT ![c] = NoArg]
    /\ u' = [u EXCEPT ![c] = <<>>]
    /\ req' = [req EXCEPT ![c] = Nil]
    /\ dest' = [dest EXCEPT ![c] = 0]
    /\ ret' = [ret EXCEPT ![c] = NoRet]
    /\ heap' = IF dest[c] = 0 THEN heap ELSE [heap EXCEPT ![dest[c]] = ZeroCell]
    /\ calls' = [calls EXCEPT ![c] = <<>>]
    /\ reenc' = [reenc EXCEPT ![c] = Nil]
    /\ UNCHANGED client

\* ---------------------------------------------------------- specifications
\* One caller, every operation, over every argument up to MaxArgLen.
Next ==
    \/ Cancel(1, ArgStrings)
    \/ Create(1, ArgStrings, {MinimalCreateBuild, FullCreateBuild})
    \/ Get(1, ArgStrings)
    \/ List(1, SomeListOptions)
    \/ ListByOrg(1, ArgStrings, SomeListOptions)
    \/ ListByPipeline(1, ArgStrings, SomeListOptions)
    \/ Rebuild(1, ArgStrings)
    \/ AddOptionsStep(1)
    \/ NewRequestStep(1)
    \/ DoStep(1, SomeBuildObjects)
    \/ Finish(1)

Spec == Init /\ [][Next]_vars

OneString == {<<"x">>}

\* One caller, every operation, over one argument string.
NextTrip ==
    \/ Cancel(1, OneString)
    \/ Create(1, OneString, {MinimalCreateBuild})
    \/ Get(1, OneString)
    \/ List(1, SomeListOptions)
    \/ ListByOrg(1, OneString, SomeListOptions)
    \/ ListByPipeline(1, OneString, SomeListOptions)
    \/ Rebuild(1, OneString)
    \/ AddOptionsStep(1)
    \/ NewRequestStep(1)
    \/ DoStep(1, SomeBuildObjects)
    \/ Finish(1)

\* Sequential code runs each of its steps once the step before it is done.
FairSpec ==
    /\ Init /\ [][NextTrip]_vars
    /\ WF_vars(AddOptionsStep(1))
    /\ WF_vars(NewRequestStep(1))
    /\ WF_vars(DoStep(1, SomeBuildObjects))

\* NumCallers concurrent callers, their steps interleaved, of one operation
\* of each shape: (*Build, error), (*Build, *Response, error) and
\* ([]Build, *Response, error).
NextConc ==
    \E c \in Callers :
        \/ Cancel(c, OneString)
        \/ Get(c, OneString)
        \/ List(c, {Nil})
        \/ AddOptionsStep(c)
        \/ NewRequestStep(c)
        \/ DoStep(c, SomeBuildObjects)
        \/ Finish(c)

ConcSpec == Init /\ [][NextConc]_vars

\* The list operations over every BuildsListOptions value.
NextList ==
    \/ List(1, EveryListOptions)
    \/ ListByOrg(1, OneString, EveryListOptions)
    \/ ListByPipeline(1, OneString, EveryListOptions)
    \/ AddOptionsStep(1)
    \/ NewRequestStep(1)
    \/ DoStep(1, {BuildObject1})
    \/ Finish(1)

ListSpec == Init /\ [][NextList]_vars

\* Get over every Build response, the returned Build serialized again.
NextBuild ==
    \/ Get(1, OneString)
    \/ NewRequestStep(1)
    \/ DoStep(1, EveryBuildObject)
    \/ ReEncode(1)
    \/ Finish(1)

BuildSpec == Init /\ [][NextBuild]_vars

\* ------------------------------------------------------------------ claims
IsDo(e) == e.call = "Do"
DoCalls(c) == SelectSeq(calls[c], IsDo)
Failed(c) == \E i \in 1..Len(calls[c]) : calls[c][i].err # Nil
LastCall(c) == calls[c][Len(calls[c])]

\* The path templates of the specification's path surface, written out.
CancelTemplate(org, pipeline, build) ==
    <<"v2", "/", "organizations", "/">> \o org \o <<"/", "pipelines", "/">> \o pipeline
        \o <<"/", "builds", "/">> \o build \o <<"/", "cancel">>
RebuildTemplate(org, pipeline, build) ==
    <<"v2", "/", "organizations", "/">> \o org \o <<"/", "pipelines", "/">> \o pipeline
        \o <<"/", "builds", "/">> \o build \o <<"/", "rebuild">>
BuildTemplate(org, pipeline, id) ==
    <<"v2", "/", "organizations", "/">> \o org \o <<"/", "pipelines", "/">> \o pipeline
        \o <<"/", "builds", "/">> \o id
PipelineBuildsTemplate(org, pipeline) ==
    <<"v2", "/", "organizations", "/">> \o org \o <<"/", "pipelines", "/">> \o pipeline
        \o <<"/", "builds">>
OrgBuildsTemplate(org) == <<"v2", "/", "organizations", "/">> \o org \o <<"/", "builds">>
BuildsTemplate == <<"v2", "/", "builds">>

\* C1: Cancel and Rebuild hand the transport one request, and no more than
\* one: a PUT to the cancel (rebuild) path template with org, pipeline and
\* build substituted in order, without a body.
C1_CancelRebuildRequest ==
    \A c \in Callers :
        op[c] \in {"Cancel", "Rebuild"} =>
            LET a == arg[c]
                want == [method |-> "PUT",
                         path |-> IF op[c] = "Cancel"
                                  THEN CancelTemplate(a.org, a.pipeline, a.id)
                                  ELSE RebuildTemplate(a.org, a.pipeline, a.id),
                         body |-> Nil]
            IN  /\ Len(DoCalls(c)) <= 1
                /\ \A i \in 1..Len(DoCalls(c)) : DoCalls(c)[i].req = Ptr(want)
                /\ req[c] # Nil => req[c] = Ptr(want)
                /\ (pc[c] = "returned" /\ ~Failed(c)) => Len(DoCalls(c)) = 1

C1_Witness ==
    \E c \in Callers :
        /\ op[c] = "Cancel" /\ pc[c] = "returned" /\ ~Failed(c)
        /\ arg[c].org = <<"x">> /\ arg[c].pipeline = <<"builds">> /\ arg[c].id = <<"/">>
        /\ Len(DoCalls(c)) = 1

\* C4: when Do returns an error in Get, Create, List, ListByOrg or
\* ListByPipeline, the operation returns a non-nil error, a nil Build
\* pointer and a nil slice, and the response Do returned.
C4_DoErrorKeepsResponse ==
    \A c \in Callers :
        (/\ pc[c] = "returned"
         /\ op[c] \in {"Get", "Create", "List", "ListByOrg", "ListByPipeline"}
         /\ calls[c] # <<>>
         /\ LastCall(c).call = "Do"
         /\ LastCall(c).err # Nil)
        => /\ ret[c].err # Nil
           /\ ret[c].ptr = Nil
           /\ ret[c].list = NilSlice
           /\ ret[c].hasResp
           /\ ret[c].resp = LastCall(c).resp

C4_Witness ==
    \E c \in Callers :
        /\ pc[c] = "returned" /\ op[c] = "Get"
        /\ calls[c] # <<>> /\ LastCall(c).call = "Do"
        /\ LastCall(c).err # Nil
        /\ ret[c].resp = Response(500)

\* C5: whichever of addOptions, NewRequest and Do fails, in whichever
\* operation, the operation returns that error with a nil Build pointer and
\* a nil slice, and no later call is made.
C5_ErrorWithNilResult ==
    \A c \in Callers :
        \A i \in 1..Len(calls[c]) :
            calls[c][i].err # Nil =>
                /\ i = Len(calls[c])
                /\ pc[c] = "returned"
                /\ ret[c].err = calls[c][i].err
                /\ ret[c].ptr = Nil
                /\ ret[c].list = NilSlice

C5_Witness ==
    \E c \in Callers :
        /\ pc[c] = "returned" /\ op[c] = "Cancel"
        /\ calls[c] # <<>> /\ LastCall(c).call = "Do"
        /\ LastCall(c).err = Error("decode")
        /\ heap[dest[c]].build # ZeroBuild

IsPrefix(s, t) == Len(s) <= Len(t) /\ \A i \in 1..Len(s) : s[i] = t[i]

\* C7: Create POSTs the CreateBuild to the pipeline's builds path, Get GETs
\* the build path without a body, and the three list operations GET their
\* path (ahead of any query string) without a body.
C7_MethodAndPath ==
    \A c \in Callers :
        req[c] # Nil =>
            LET a == arg[c]
                r == Deref(req[c])
            IN  /\ op[c] = "Create" =>
                    /\ r.method = "POST"
                    /\ r.path = PipelineBuildsTemplate(a.org, a.pipeline)
                    /\ r.body # Nil
                    /\ {"commit", "branch", "message"} \subseteq DOMAIN Deref(r.body)
                    /\ Deref(r.body)["commit"] = JStr(Deref(a.b).Commit)
                    /\ Deref(r.body)["branch"] = JStr(Deref(a.b).Branch)
                    /\ Deref(r.body)["message"] = JStr(Deref(a.b).Message)
                /\ op[c] = "Get" =>
                    r = [method |-> "GET", path |-> BuildTemplate(a.org, a.pipeline, a.id),
                         body |-> Nil]
                /\ op[c] \in ListOps =>
                    LET base == CASE op[c] = "List" -> BuildsTemplate
                                  [] op[c] = "ListByOrg" -> OrgBuildsTemplate(a.org)
                                  [] op[c] = "ListByPipeline" ->
                                        PipelineBuildsTemplate(a.org, a.pipeline)
                    IN  /\ r.method = "GET"
                        /\ r.body = Nil
                        /\ IsPrefix(base, r.path)
                        /\ r.path # base => r.path[Len(base) + 1] = "?"

C7_Witness ==
    \E c \in Callers :
        /\ op[c] = "Create" /\ pc[c] = "returned" /\ ~Failed(c)
        /\ arg[c].org = <<"x">> /\ arg[c].pipeline = <<"builds">>
        /\ arg[c].b = Ptr(FullCreateBuild)

\* C2 (as claimed): the body Create serializes has the keys commit, branch
\* and message and, of the optional keys, those whose field is non-empty,
\* an Author counting as empty when its name and email are.
C2_CreateBodyOmitsEmpty ==
    \A c \in Callers :
        (op[c] = "Create" /\ req[c] # Nil) =>
            LET b == Deref(arg[c].b)
            IN  DOMAIN Deref(Deref(req[c]).body) =
                    {"commit", "branch", "message"}
                    \cup (IF b.Author.Name # "" \/ b.Author.Email # "" THEN {"author"} ELSE {})
                    \cup (IF b.Env.len > 0 THEN {"env"} ELSE {})
                    \cup (IF b.MetaData.len > 0 THEN {"meta_data"} ELSE {})
                    \cup (IF b.IgnorePipelineBranchFilters
                          THEN {"ignore_pipeline_branch_filters"} ELSE {})
                    \cup (IF b.PullRequestBaseBranch # ""
                          THEN {"pull_request_base_branch"} ELSE {})
                    \cup (IF b.PullRequestID # 0 THEN {"pull_request_id"} ELSE {})
                    \cup (IF b.PullRequestRepository # ""
                          THEN {"pull_request_repository"} ELSE {})

CallNames(c) == [i \in 1..Len(calls[c]) |-> calls[c][i].call]
ExpectedCalls(o) ==
    IF o \in ListOps THEN <<"addOptions", "NewRequest", "Do">> ELSE <<"NewRequest", "Do">>

C6_Safety ==
    \A c \in Callers :
        /\ op[c] # "none" => IsPrefix(CallNames(c), ExpectedCalls(op[c]))
        /\ Len(DoCalls(c)) <= 1
        /\ pc[c] = "returned" => (Failed(c) \/ CallNames(c) = ExpectedCalls(op[c]))
        /\ \A i \in 1..Len(calls[c]) : calls[c][i].err # Nil => i = Len(calls[c])
        /\ (calls[c] # <<>> /\ LastCall(c).err # Nil) => pc[c] = "returned"

\* C6: an invocation makes its transport calls in the order addOptions,
\* NewRequest, Do, each at most once; Do is called once when the calls before
\* it succeed and not at all when one fails; no call follows a failed one;
\* and every invocation comes to its return.
C6_SingleRoundTrip ==
    /\ []C6_Safety
    /\ \A c \in Callers : (pc[c] \in {"addOptions", "newRequest", "do"}) ~> (pc[c] = "returned")

C6_Witness ==
    \E c \in Callers :
        /\ pc[c] = "returned" /\ op[c] = "ListByPipeline"
        /\ CallNames(c) = <<"addOptions", "NewRequest", "Do">>
        /\ LastCall(c).err # Nil

\* The calls with slash-free, non-empty arguments and no list options, each
\* with the method and path it issues.
SlashFreeArgs == {s \in ArgStrings : s # <<>> /\ ~HasSlash(s)}
ArgsFor(o) ==
    [org : IF o = "List" THEN {<<>>} ELSE SlashFreeArgs,
     pipeline : IF o \in {"List", "ListByOrg"} THEN {<<>>} ELSE SlashFreeArgs,
     id : IF o \in {"Cancel", "Get", "Rebuild"} THEN SlashFreeArgs ELSE {<<>>}]
PathArgs(a) == [org |-> a.org, pipeline |-> a.pipeline, id |-> a.id]
SlashFreeCalls ==
    UNION {{[op |-> o, a |-> a, method |-> MethodOf(o), path |-> PathOf(o, a)] :
               a \in ArgsFor(o)} : o \in Ops}

\* C10: among the calls with slash-free, non-empty arguments and no list
\* options, only the call itself issues the method and path of a request.
C10_RequestDeterminesCall ==
    \A c \in Callers :
        (/\ pc[c] = "do"
         /\ arg[c].opt = Nil
         /\ PathArgs(arg[c]) \in ArgsFor(op[c]))
        => \A x \in SlashFreeCalls :
              (x.method = Deref(req[c]).method /\ x.path = Deref(req[c]).path)
              => (x.op = op[c] /\ x.a = PathArgs(arg[c]))

C10_Witness ==
    \E c \in Callers :
        /\ pc[c] = "do" /\ op[c] = "Get" /\ arg[c].opt = Nil
        /\ arg[c].org = <<"x">> /\ arg[c].pipeline = <<"builds">> /\ arg[c].id = <<"builds">>

\* What an invocation returns is what its own calls returned: the error of
\* its own failed call, or the decoding of the body its own Do received, in
\* a result value no other live invocation holds.
C9_OwnResult ==
    /\ \A c, d \in Callers : (c # d /\ dest[c] # 0) => dest[c] # dest[d]
    /\ \A c \in Callers :
          pc[c] = "returned" =>
              IF Failed(c)
              THEN ret[c].err = LastCall(c).err /\ ret[c].ptr = Nil /\ ret[c].list = NilSlice
              ELSE LET body == Deref(LastCall(c).body)
                   IN  /\ ret[c].err = Nil
                       /\ op[c] \in ListOps =>
                             ret[c].list = Slice([i \in 1..Len(body) |-> DecodeBuild(body[i])])
                       /\ op[c] \notin ListOps =>
                             /\ ret[c].ptr # Nil
                             /\ heap[Deref(ret[c].ptr)].build = DecodeBuild(body[1])

\* C9: under every interleaving of concurrent invocations, each invocation
\* decodes into a result value of its own and returns what its own arguments
\* and its own transport response determine, and no operation writes the
\* service's transport reference.
C9_NoSharedState == []C9_OwnResult /\ [][client' = client]_vars

\* Two invocations returned at once, each with its own, different, Build.
C9_Witness ==
    /\ pc[1] = "returned" /\ pc[2] = "returned"
    /\ op[1] = "Get" /\ op[2] = "Cancel"
    /\ ret[1].ptr # Nil /\ ret[2].ptr # Nil
    /\ heap[Deref(ret[1].ptr)].build # heap[Deref(ret[2].ptr)].build

\* Whether the path u carries a query parameter named key.
HasParam(path, key) ==
    \E i \in 2..(Len(path) - 1) :
        path[i] = key /\ path[i - 1] \in {"?", "&"} /\ path[i + 1] = "="
ParamValues(path, key) ==
    {path[i + 2] : i \in {j \in 2..(Len(path) - 2) :
        path[j] = key /\ path[j - 1] \in {"?", "&"} /\ path[j + 1] = "="}}
ParamCount(path) == Cardinality({i \in 1..Len(path) : path[i] = "="})

\* C3: a list operation given nil options requests its bare path; given
\* options it requests the path with one parameter for each non-zero filter
\* (one per element for state, named state[]) and none for a zero one, so
\* List with only Branch "main" requests v2/builds?branch=main.
C3_QueryOnlyNonZero ==
    \A c \in Callers :
        (op[c] \in ListOps /\ req[c] # Nil) =>
            LET a == arg[c]
                path == Deref(req[c]).path
                base == CASE op[c] = "List" -> BuildsTemplate
                          [] op[c] = "ListByOrg" -> OrgBuildsTemplate(a.org)
                          [] op[c] = "ListByPipeline" ->
                                PipelineBuildsTemplate(a.org, a.pipeline)
            IN  IF a.opt = Nil THEN path = base
                ELSE LET o == Deref(a.opt)
                     IN  /\ IsPrefix(base, path)
                         /\ path # base => path[Len(base) + 1] = "?"
                         /\ HasParam(path, "creator") <=> o.Creator # ""
                         /\ HasParam(path, "created_from") <=> o.CreatedFrom # 0
                         /\ HasParam(path, "created_to") <=> o.CreatedTo # 0
                         /\ HasParam(path, "finished_from") <=> o.FinishedFrom # 0
                         /\ HasParam(path, "state[]") <=> o.State # <<>>
                         /\ HasParam(path, "branch") <=> o.Branch # ""
                         /\ HasParam(path, "commit") <=> o.Commit # ""
                         /\ HasParam(path, "page") <=> o.Page # 0
                         /\ HasParam(path, "per_page") <=> o.PerPage # 0
                         /\ ~HasParam(path, "state")
                         /\ o.Branch # "" => ParamValues(path, "branch") = {o.Branch}
                         /\ ParamValues(path, "state[]") = Range(o.State)
                         /\ ParamCount(path) =
                               Len(o.State)
                               + Cardinality({k \in {"creator", "created_from", "created_to",
                                                     "finished_from", "branch", "commit",
                                                     "page", "per_page"} : HasParam(path, k)})
                         /\ (op[c] = "List" /\ o = BranchMainOptions) =>
                               path = <<"v2", "/", "builds", "?", "branch", "=", "main">>

C3_Witness ==
    \E c \in Callers :
        /\ op[c] = "List" /\ pc[c] = "returned" /\ ~Failed(c)
        /\ arg[c].opt = Ptr(BranchMainOptions)
        /\ Deref(req[c]).path = <<"v2", "/", "builds", "?", "branch", "=", "main">>

\* The response body a successful Do received, for a caller that has
\* serialized the Build it was returned.
OwnBody(c) == Deref(LastCall(c).body)[1]

\* C8 (as claimed): serializing a decoded Build again keeps, for every key
\* of Build, whether the response had the key: an absent key stays absent,
\* and a key present with a value, however empty or zero, stays present.
C8_PresenceRoundTrip ==
    \A c \in Callers :
        reenc[c] # Nil =>
            \A k \in BuildKeys :
                /\ k \notin DOMAIN OwnBody(c) => k \notin DOMAIN Deref(reenc[c])
                /\ (k \in DOMAIN OwnBody(c) /\ OwnBody(c)[k] # JNull)
                      => k \in DOMAIN Deref(reenc[c])

\* C8 (amended): a key is serialized again exactly when the response had it
\* with a value other than null and, for env and jobs, other than the empty
\* object and the empty array.
C8_PresenceRoundTripAmended ==
    \A c \in Callers :
        reenc[c] # Nil =>
            \A k \in BuildKeys :
                k \in DOMAIN Deref(reenc[c]) <=>
                    /\ k \in DOMAIN OwnBody(c)
                    /\ OwnBody(c)[k] # JNull
                    /\ ~(k \in {"env", "jobs"} /\ OwnBody(c)[k].size = 0)

C8_Witness ==
    \E c \in Callers :
        /\ reenc[c] # Nil
        /\ "number" \in DOMAIN OwnBody(c)
        /\ OwnBody(c)["number"] = JNum(0)
        /\ "number" \in DOMAIN Deref(reenc[c])
        /\ "url" \notin DOMAIN OwnBody(c)

====
